---- MODULE Spec2Model ----
(***************************************************************************)
(* State-machine model of the Starknet Telegram support bot:               *)
(*   - RateLimiter.is_allowed          (bot.py)                            *)
(*   - StarknetAI.get_response         (ai_client.py)                      *)
(* Strings are TLA+ strings; the emoji U+1F4DA of the sources marker is    *)
(* written ":books:" because the module is ASCII.                          *)
(***************************************************************************)
EXTENDS Integers, Sequences, FiniteSets, TLC

VARIABLES
    \* ---- RateLimiter (bot.py) ----
    requests,      \* self.requests: dict chat_id -> list of datetimes
    now,           \* the wall clock read by datetime.now(), in seconds
    accepted,      \* history: per chat, the timestamps of calls that returned True
    rl_last,       \* history: the latest is_allowed call [chat, ret, at, n]
    \* ---- StarknetAI.get_response (ai_client.py) ----
    pc,            \* position of the request inside get_response
    attempt,       \* loop variable of `for attempt in range(3)`
    self_session,  \* whether self.session holds a pooled ClientSession
    own_sessions,  \* open ClientSessions created by get_response itself
    ws_open,       \* whether the attempt's WebSocket is open
    full_response, \* local full_response
    sources,       \* local sources
    ret,           \* value returned to the caller (NoValue until it returns)
    raised,        \* TRUE when an exception left get_response
    frames,        \* history: inbound frames consumed in the current attempt
    chunks,        \* history: payloads of the message frames of the current attempt
    kept,          \* history: sources held when the stream loop of the attempt ended
    log,           \* history: how each attempt ended, in order
    sleeps,        \* history: the asyncio.sleep durations, in order
    chat_id,       \* argument chat_id of get_response
    history,       \* argument history of get_response
    formatted_history, \* local formatted_history
    sent,          \* history: the query frames handed to ws.send_str, in order
    ws_opened,     \* history: WebSockets opened so far; the current one's number
    ws_closed,     \* history: WebSockets closed so far
    last_src,      \* history: payload of the attempt's latest `sources` frame
    \* ---- handle_message (bot.py) and Database (database.py) ----
    h,             \* per handler task: its position and what its update did
    table,         \* rows of the "conversations" table, oldest first
    db_configured, \* whether Database.client is set
    updates,       \* history: updates delivered to handle_message so far
    metrics        \* BotMetrics

rlVars == <<requests, now, accepted, rl_last>>
aiVars == <<pc, attempt, self_session, own_sessions, ws_open, full_response,
            sources, ret, raised, frames, chunks, kept, log, sleeps,
            chat_id, history, formatted_history, sent, ws_opened, ws_closed, last_src>>
botVars == <<h, table, db_configured, updates, metrics>>
vars == <<rlVars, aiVars, botVars>>

NoValue == "<none>"

(***************************************************************************)
(* Bounds of the model.                                                    *)
(***************************************************************************)
TickSeconds == 1800   \* the clock advances in steps of this many seconds
MaxNow == 5400        \* the clock stops advancing here
MaxFrames == 3        \* non-terminal inbound frames consumed per attempt
MaxTurns == 11        \* rows of one conversation in the table at the start
MaxUpdates == 3       \* updates delivered to handle_message

(***************************************************************************)
(* config.py                                                               *)
(***************************************************************************)
RATE_LIMIT_PER_CHAT == 20
RATE_LIMIT_WINDOW == 3600

(***************************************************************************)
(* Python helpers.                                                         *)
(***************************************************************************)
\* d.get(k, default) on a dict modelled as a function
Get(d, k, default) == IF k \in DOMAIN d THEN d[k] ELSE default

\* s[:n]
Take(s, n) == SubSeq(s, 1, IF Len(s) < n THEN Len(s) ELSE n)

\* dict with d[k] = v
PutAlone(d, k, v) == [x \in {k} |-> v]
\* d[k] = v
Put(d, k, v) == [x \in DOMAIN d \cup {k} |-> IF x = k THEN v ELSE d[x]]

Last(s) == s[Len(s)]

(***************************************************************************)
(* RateLimiter                                                             *)
(***************************************************************************)
ChatIds == {"c1", "c2"}

\* now - t < timedelta(seconds=RATE_LIMIT_WINDOW)
InWindow(t, at) == at - t < RATE_LIMIT_WINDOW

\* "Clean old requests": the list of chat c after lines 71-78
CleanOld(reqs, c, at) ==
    IF c \in DOMAIN reqs
    THEN SelectSeq(reqs[c], LAMBDA t : InWindow(t, at))
    ELSE <<>>

LimitReachedOffByOne(window) == Len(window) > RATE_LIMIT_PER_CHAT
\* "Check limit": len(self.requests[chat_id]) >= RATE_LIMIT_PER_CHAT
LimitReached(window) == Len(window) >= RATE_LIMIT_PER_CHAT

\* the list of chat c once is_allowed has run at time `at`
RecordOverwrite(window, at) == IF LimitReached(window) THEN window ELSE <<at>>
RecordAlways(window, at) == Append(window, at)
Record(window, at) ==
    IF LimitReached(window) THEN window ELSE Append(window, at)

\* RateLimiter.is_allowed(chat_id), one call, atomic (no await inside); the
\* caller's own variables are left to the caller
is_allowed(c) ==
    LET window == CleanOld(requests, c, now)
        ok == ~LimitReached(window)
    IN  /\ requests' = Put(requests, c, Record(window, now))
        /\ accepted' = [accepted EXCEPT ![c] = IF ok THEN Append(@, now) ELSE @]
        /\ rl_last' = [chat |-> c, ret |-> ok, at |-> now,
                       n |-> IF rl_last.n < 2 THEN rl_last.n + 1 ELSE 1]
        /\ UNCHANGED <<now, aiVars>>

\* time passes between two calls
Tick ==
    /\ now + TickSeconds <= MaxNow
    /\ now' = now + TickSeconds
    /\ UNCHANGED <<requests, accepted, rl_last, aiVars, botVars>>

\* a whole window passes between two calls
TickWindow ==
    /\ now + RATE_LIMIT_WINDOW <= MaxNow
    /\ now' = now + RATE_LIMIT_WINDOW
    /\ UNCHANGED <<requests, accepted, rl_last, aiVars, botVars>>

(***************************************************************************)
(* StarknetAI.get_response                                                 *)
(***************************************************************************)
\* the fixed sentences get_response can return
SORRY_MSG == "Sorry, I encountered an error. Please try again."
NO_RESPONSE_MSG == "I couldn't generate a response. Please try again."
TIMEOUT_MSG == "Response timeout. Please try with a shorter question."
GENERIC_MSG == "I'm having trouble connecting to the knowledge base. Please try again."
SOURCES_MARKER == "\n\n:books: Sources:"

MAX_ATTEMPTS == 3     \* for attempt in range(3)
LastAttemptOffByOne == 2 + 1
LAST_ATTEMPT == 2     \* if attempt == 2
BACKOFF_SECONDS == 1  \* asyncio.sleep(1)
MaxSourcesOffByOne == 3 + 1
MAX_SOURCES == 3      \* [:3]

\* the exception classes the attempt can raise; all derive from Exception
ExceptionClasses ==
    {"TimeoutError", "ClientError", "JSONDecodeError", "KeyError", "AttributeError"}

\* ---- inbound frames -----------------------------------------------------
S_docs == [metadata |-> [url |-> "https://docs"]]
S_book == [metadata |-> [url |-> "https://book"]]
S_notUrl == [metadata |-> [title |-> "Cairo book"]]
S_emptyUrl == [metadata |-> [url |-> ""]]
S_noMeta == [pageContent |-> "text"]

SourceLists ==
    { <<>>, <<S_docs>>, <<S_notUrl, S_docs>>, <<S_emptyUrl>>,
      <<S_docs, S_noMeta, S_book, S_docs>> }

Chunks == {"", "Cairo ", "is a language."}

\* a WebSocket message: its type, whether json.loads accepts msg.data, whether
\* the decoded value is a dict, and the decoded dict
TextFrame(json) == [type |-> "TEXT", decodable |-> TRUE, is_dict |-> TRUE, json |-> json]

SourcesFrames == { TextFrame([type |-> "sources", data |-> l]) : l \in SourceLists }
MessageFrames == { TextFrame([type |-> "message", data |-> c]) : c \in Chunks }
BareFrames ==
    { TextFrame([type |-> t]) : t \in {"sources", "message", "messageEnd", "error", "ping"} }
EndFrames == { TextFrame([type |-> "messageEnd", data |-> [messageId |-> "m1"]]) }
ErrorFrames == { TextFrame([type |-> "error", data |-> "x"]) }
UntypedFrames == { TextFrame([data |-> "x"]) }
BrokenFrames ==
    { [type |-> "TEXT", decodable |-> FALSE, is_dict |-> FALSE, json |-> <<>>],
      [type |-> "TEXT", decodable |-> TRUE, is_dict |-> FALSE, json |-> <<>>],
      [type |-> "BINARY", decodable |-> FALSE, is_dict |-> FALSE, json |-> <<>>] }

\* ---- post-processing (lines 122-127) -------------------------------------
\* the lines of the trailer: for idx, source in enumerate(sources, idx)
RECURSIVE TrailerLines(_, _)
TrailerLines(srcs, idx) ==
    IF srcs = <<>> THEN ""
    ELSE LET url == Get(Get(Head(srcs), "metadata", <<>>), "url", "")
         IN  (IF url # "" THEN "\n" \o ToString(idx) \o ". " \o url ELSE "")
                 \o TrailerLines(Tail(srcs), idx + 1)

\* full_response after `if sources and full_response:`
WithTrailer(text, srcs) ==
    IF srcs # <<>> /\ text # ""
    THEN text \o SOURCES_MARKER \o TrailerLines(srcs, 1)
    ELSE text

OrEmpty(text) == text
\* return full_response or "I couldn't generate a response. Please try again."
OrNoResponse(text) == IF text # "" THEN text ELSE NO_RESPONSE_MSG

AccumulateNoRepeat(text, payload) == IF payload = text THEN text ELSE text \o payload
\* full_response += data.get("data", "")
Accumulate(text, payload) == text \o payload

\* ---- exits of an attempt -------------------------------------------------
LeakSession(own) == own
\* the finally clause (lines 144-149): the sessions get_response created that
\* are still open once it has run
FinallyClause(own) == 0

\* the statements after the `async for` (lines 122-132): reached by `break`
\* and by the end of the stream alike
AfterLoop(how) ==
    /\ full_response' = WithTrailer(full_response, sources)
    /\ ret' = OrNoResponse(WithTrailer(full_response, sources))
    /\ pc' = "done"
    /\ kept' = sources
    /\ log' = Append(log, how)
    /\ ws_open' = FALSE
    /\ own_sessions' = FinallyClause(own_sessions)
    /\ UNCHANGED <<attempt, self_session, sources, raised, frames, chunks, sleeps>>
    /\ UNCHANGED <<chat_id, history, formatted_history, last_src>>

CaughtOnlyTransport(exc) == exc \in {"TimeoutError", "ClientError"}
\* whether an except clause of get_response catches the exception
Caught(exc) == exc = "TimeoutError" \/ exc \in ExceptionClasses

ExhaustedMessageSwapped(exc) == IF exc = "TimeoutError" THEN GENERIC_MSG ELSE TIMEOUT_MSG
\* the sentence returned by the except clause taken on the last attempt
ExhaustedMessage(exc) == IF exc = "TimeoutError" THEN TIMEOUT_MSG ELSE GENERIC_MSG

\* the except/finally clauses (lines 134-149) for an exception raised inside try
HandleException(exc, how) ==
    /\ log' = Append(log, how)
    /\ ws_open' = FALSE
    /\ kept' = <<>>
    /\ IF ~Caught(exc)
       THEN /\ raised' = TRUE
            /\ pc' = "done"
            /\ own_sessions' = FinallyClause(own_sessions)
            /\ UNCHANGED <<ret, sleeps>>
       ELSE IF attempt = LAST_ATTEMPT
       THEN /\ ret' = ExhaustedMessage(exc)
            /\ pc' = "done"
            /\ own_sessions' = FinallyClause(own_sessions)
            /\ UNCHANGED <<raised, sleeps>>
       ELSE \* the sleep runs inside the except clause, before `finally`: the
            \* session this attempt created stays open until Backoff
            /\ sleeps' = Append(sleeps, BACKOFF_SECONDS)
            /\ pc' = "backoff"
            /\ own_sessions' = IF self_session THEN 0 ELSE 1
            /\ UNCHANGED <<ret, raised>>
    /\ UNCHANGED <<attempt, self_session, full_response, sources, frames, chunks>>
    /\ UNCHANGED <<chat_id, history, formatted_history, last_src>>

\* ---- the request ---------------------------------------------------------
\* history[-6:]
LastN(s, n) == SubSeq(s, IF Len(s) > n THEN Len(s) - n + 1 ELSE 1, Len(s))

RoleWrongLabel(role) == IF role = "human" THEN "human" ELSE "ai"
\* role = "human" if msg["role"] == "user" else "ai"
Role(role) == IF role = "user" THEN "human" ELSE "ai"

HISTORY_TURNS == 6    \* history[-6:]

\* "Convert history to API format" (lines 58-63)
FormatHistory(hist) ==
    LET recent == LastN(hist, HISTORY_TURNS)
    IN  [i \in 1..Len(recent) |-> <<Role(recent[i].role), recent[i].message>>]

\* "messageId": f"tg-{chat_id}-msg"
MessageId(cid) == "tg-" \o cid \o "-msg"

ReusedChannel(n) == IF n = 0 THEN 1 ELSE n
\* session.ws_connect(...) inside the loop: every call makes a new WebSocket,
\* numbered here in the order of creation
NewChannel(n) == n + 1

\* the frame of lines 78-92, with the WebSocket it is written to
QueryFrame(ws) ==
    [type |-> "message", messageId |-> MessageId(chat_id), chatId |-> chat_id,
     history |-> formatted_history, ws |-> ws, attempt |-> attempt]

\* get_response(message, chat_id, history) is called: the history is
\* formatted and the loop starts with attempt 0; the caller's own variables
\* are left to the caller
Call(cid, hist) ==
    /\ pc = "idle"
    /\ pc' = "connect"
    /\ attempt' = 0
    /\ chat_id' = cid
    /\ history' = hist
    /\ formatted_history' = FormatHistory(hist)
    /\ UNCHANGED <<self_session, own_sessions, ws_open, full_response, sources,
                   ret, raised, frames, chunks, kept, log, sleeps>>
    /\ UNCHANGED <<sent, ws_opened, ws_closed, last_src>>
    /\ UNCHANGED rlVars

\* lines 76-95: take or create the session, open the WebSocket, send the query
Connect(outcome) ==
    /\ pc = "connect"
    /\ CASE outcome = "open" ->
                /\ pc' = "stream"
                /\ ws_open' = TRUE
                /\ own_sessions' = IF self_session THEN 0 ELSE 1
                /\ full_response' = ""
                /\ sources' = <<>>
                /\ frames' = 0
                /\ chunks' = <<>>
                /\ kept' = <<>>
                /\ last_src' = <<>>
                /\ ws_opened' = NewChannel(ws_opened)
                /\ sent' = Append(sent, QueryFrame(NewChannel(ws_opened)))
                /\ UNCHANGED <<attempt, self_session, ret, raised, log, sleeps>>
                /\ UNCHANGED <<chat_id, history, formatted_history, ws_closed>>
         \* ws_connect raises: no WebSocket exists
         [] outcome = "refused" ->
                /\ HandleException("ClientError", "transport")
                /\ UNCHANGED <<sent, ws_opened, ws_closed>>
         [] outcome = "timeout" ->
                /\ HandleException("TimeoutError", "timeout")
                /\ UNCHANGED <<sent, ws_opened, ws_closed>>
         \* ws_connect returns and send_str raises: the `async with` closes
         \* the WebSocket on the way out
         [] outcome = "reset" ->
                /\ HandleException("ClientError", "transport")
                /\ ws_opened' = NewChannel(ws_opened)
                /\ sent' = Append(sent, QueryFrame(NewChannel(ws_opened)))
                /\ ws_closed' = ws_closed + 1
    /\ UNCHANGED <<rlVars, botVars>>

ConnectOutcomes == {"open", "refused", "reset", "timeout"}

\* one iteration of `async for msg in ws` (lines 96-120)
Receive(msg) ==
    /\ pc = "stream"
    /\ LET data == msg.json
           skip == /\ frames < MaxFrames
                   /\ frames' = frames + 1
                   /\ UNCHANGED <<pc, attempt, self_session, own_sessions, ws_open,
                                  full_response, sources, ret, raised, chunks, kept,
                                  log, sleeps>>
                   /\ UNCHANGED <<chat_id, history, formatted_history, last_src>>
       IN  IF msg.type # "TEXT" THEN skip
           ELSE IF ~msg.decodable THEN HandleException("JSONDecodeError", "undecodable")
           ELSE IF ~msg.is_dict THEN HandleException("AttributeError", "undecodable")
           ELSE IF "type" \notin DOMAIN data THEN HandleException("KeyError", "untyped")
           ELSE IF data["type"] = "sources"
           THEN /\ frames < MaxFrames
                /\ frames' = frames + 1
                /\ sources' = Take(Get(data, "data", <<>>), MAX_SOURCES)
                /\ last_src' = Get(data, "data", <<>>)
                /\ UNCHANGED <<pc, attempt, self_session, own_sessions, ws_open,
                               full_response, ret, raised, chunks, kept, log, sleeps>>
                /\ UNCHANGED <<chat_id, history, formatted_history>>
           ELSE IF data["type"] = "message"
           THEN /\ frames < MaxFrames
                /\ frames' = frames + 1
                /\ full_response' = Accumulate(full_response, Get(data, "data", ""))
                /\ chunks' = Append(chunks, Get(data, "data", ""))
                /\ UNCHANGED <<pc, attempt, self_session, own_sessions, ws_open,
                               sources, ret, raised, kept, log, sleeps>>
                /\ UNCHANGED <<chat_id, history, formatted_history, last_src>>
           ELSE IF data["type"] = "messageEnd" THEN AfterLoop("messageEnd")
           ELSE IF data["type"] = "error"
           THEN IF attempt = LAST_ATTEMPT
                THEN /\ ret' = SORRY_MSG
                     /\ pc' = "done"
                     /\ log' = Append(log, "error")
                     /\ ws_open' = FALSE
                     /\ own_sessions' = FinallyClause(own_sessions)
                     /\ kept' = sources
                     /\ UNCHANGED <<attempt, self_session, full_response, sources,
                                    raised, frames, chunks, sleeps>>
                     /\ UNCHANGED <<chat_id, history, formatted_history, last_src>>
                ELSE AfterLoop("error")
           ELSE skip
    \* leaving the `async with` closes the WebSocket
    /\ ws_closed' = IF ws_open' THEN ws_closed ELSE ws_closed + 1
    /\ UNCHANGED <<sent, ws_opened>>
    /\ UNCHANGED <<rlVars, botVars>>

\* the stream ends (the peer closed the channel): the `async for` is exhausted
StreamClosed ==
    /\ pc = "stream"
    /\ AfterLoop("closed")
    /\ ws_closed' = ws_closed + 1
    /\ UNCHANGED <<sent, ws_opened>>
    /\ UNCHANGED <<rlVars, botVars>>

\* receiving raises: the deadline passed, or the connection broke
ReceiveRaises(exc) ==
    /\ pc = "stream"
    /\ HandleException(exc, IF exc = "TimeoutError" THEN "timeout" ELSE "transport")
    /\ ws_closed' = ws_closed + 1
    /\ UNCHANGED <<sent, ws_opened>>
    /\ UNCHANGED <<rlVars, botVars>>

\* asyncio.sleep(1) returns, `finally` runs, the loop goes to its next iteration
Backoff ==
    /\ pc = "backoff"
    /\ attempt' = attempt + 1
    /\ own_sessions' = FinallyClause(own_sessions)
    /\ IF attempt + 1 < MAX_ATTEMPTS
       THEN pc' = "connect" /\ ret' = ret
       ELSE pc' = "done" /\ ret' = "None"
    /\ UNCHANGED <<self_session, ws_open, full_response, sources,
                   raised, frames, chunks, kept, log, sleeps>>
    /\ UNCHANGED <<chat_id, history, formatted_history, sent, ws_opened, ws_closed,
                   last_src>>
    /\ UNCHANGED <<rlVars, botVars>>

(***************************************************************************)
(* Database (database.py)                                                  *)
(***************************************************************************)
HISTORY_LIMIT == 10   \* get_chat_history(self, chat_id, limit: int = 10)

Reverse(s) == [i \in 1..Len(s) |-> s[Len(s) + 1 - i]]

\* the role labels handle_message stores (bot.py lines 166 and 201)
StoredRoles == {"user", "assistant"}

\* Database.get_chat_history when the query succeeds: the rows of the chat,
\* newest first, the first `limit` of them, reversed; columns role, message
get_chat_history(tbl, cid, limit) ==
    LET mine == SelectSeq(tbl, LAMBDA r : r.chat_id = cid)
        page == Take(Reverse(mine), limit)
    IN  Reverse([i \in 1..Len(page) |->
                    [role |-> page[i].role, message |-> page[i].message]])

\* the task running get_response is cancelled while it awaits `at`:
\* CancelledError is no Exception, so no except clause takes it; the
\* `async with` closes the WebSocket and `finally` closes the session
CancelPoints ==
    CASE pc = "connect" -> {"ws_connect", "send_str"}
      [] pc = "stream" -> {"receive"}
      [] pc = "backoff" -> {"sleep"}
      [] OTHER -> {}
Cancel(at) ==
    /\ at \in CancelPoints
    /\ pc' = "cancelled"
    /\ raised' = TRUE
    /\ log' = IF pc = "backoff" THEN log ELSE Append(log, "cancelled")
    /\ ws_open' = FALSE
    /\ own_sessions' = FinallyClause(own_sessions)
    /\ IF at = "send_str"
       THEN /\ ws_opened' = NewChannel(ws_opened)
            /\ sent' = Append(sent, QueryFrame(NewChannel(ws_opened)))
            /\ ws_closed' = ws_closed + 1
       ELSE /\ ws_closed' = IF ws_open THEN ws_closed + 1 ELSE ws_closed
            /\ UNCHANGED <<sent, ws_opened>>
    /\ UNCHANGED <<attempt, self_session, full_response, sources, ret, frames,
                   chunks, kept, sleeps, chat_id, history, formatted_history, last_src>>
    /\ UNCHANGED <<rlVars, botVars>>

InitRL ==
    /\ requests = <<>>
    /\ now = 0
    /\ accepted = [c \in ChatIds |-> <<>>]
    /\ rl_last = [chat |-> NoValue, ret |-> FALSE, at |-> 0, n |-> 0]

InitAIIdle ==
    /\ pc = "idle"
    /\ attempt = 0
    /\ self_session \in BOOLEAN
    /\ own_sessions = 0
    /\ ws_open = FALSE
    /\ full_response = ""
    /\ sources = <<>>
    /\ ret = NoValue
    /\ raised = FALSE
    /\ frames = 0
    /\ chunks = <<>>
    /\ kept = <<>>
    /\ log = <<>>
    /\ sleeps = <<>>
    /\ chat_id = NoValue
    /\ history = <<>>
    /\ formatted_history = <<>>
    /\ sent = <<>>
    /\ ws_opened = 0
    /\ ws_closed = 0
    /\ last_src = <<>>

\* handler tasks; no update is being handled, the table is empty
Tasks == {"t1", "t2"}
IdleTask == [pc |-> "idle", chat |-> NoValue, history |-> <<>>, response |-> NoValue,
             saves |-> 0, reads |-> 0, asks |-> 0, notices |-> 0, replies |-> 0,
             ws0 |-> 0]
InitBot ==
    /\ h = [t \in Tasks |-> IdleTask]
    /\ table = <<>>
    /\ db_configured \in BOOLEAN
    /\ updates = 0
    /\ metrics = [total_messages |-> 0, successful_responses |-> 0,
                  failed_responses |-> 0]

(***************************************************************************)
(* handle_message (bot.py): one action per stretch of code between awaits, *)
(* run by task t.  Every text of this model is shorter than 2000 and 4000  *)
(* characters, so message[:2000] keeps it whole and the reply is one part. *)
(***************************************************************************)
QUESTION == "What is Cairo?"
RATE_LIMIT_NOTICE == "Rate limit reached. Please wait a moment before asking again."

Free(t) == h[t].pc \in {"idle", "finished"}

\* lines 128-138: a group message that neither mentions the bot nor replies
\* to it is dropped before anything is counted
Ignored(t) ==
    /\ Free(t) /\ updates < MaxUpdates
    /\ updates' = updates + 1
    /\ UNCHANGED <<h, table, db_configured, metrics, rlVars, aiVars>>

AfterAdmissionLenient(allowed) == "typing"
\* line 148: `if not rate_limiter.is_allowed(chat.id)` chooses the path
AfterAdmission(allowed) == IF allowed THEN "typing" ELSE "notice"

\* lines 123-148: the update is counted and the limiter is asked, in one
\* stretch without await
Admit(t, c) ==
    /\ Free(t) /\ updates < MaxUpdates
    /\ updates' = updates + 1
    /\ metrics' = [metrics EXCEPT !.total_messages = @ + 1]
    /\ is_allowed(c)
    /\ h' = [h EXCEPT ![t] = [IdleTask EXCEPT !.pc = AfterAdmission(rl_last'.ret),
                                              !.chat = c,
                                              !.ws0 = ws_opened]]
    /\ UNCHANGED <<table, db_configured>>

\* lines 149-153: the notice is sent and the handler returns
Notice(t) ==
    /\ h[t].pc = "notice"
    /\ h' = [h EXCEPT ![t].pc = "finished", ![t].notices = @ + 1,
                      ![t].response = RATE_LIMIT_NOTICE]
    /\ UNCHANGED <<table, db_configured, updates, metrics, rlVars, aiVars>>

\* line 156, outside the try: a failure leaves the handler
Typing(t, ok) ==
    /\ h[t].pc = "typing"
    /\ h' = [h EXCEPT ![t].pc = IF ok THEN "save_user" ELSE "finished"]
    /\ UNCHANGED <<table, db_configured, updates, metrics, rlVars, aiVars>>

\* Database.save_message (database.py 15-44): nothing without a client, a
\* failed insert is logged and swallowed
save_message(tbl, cid, text, role, ok) ==
    IF db_configured /\ ok
    THEN Append(tbl, [chat_id |-> cid, role |-> role, message |-> text])
    ELSE tbl

\* lines 160-167
SaveUser(t, ok) ==
    /\ h[t].pc = "save_user"
    /\ table' = save_message(table, h[t].chat, QUESTION, "user", ok)
    /\ h' = [h EXCEPT ![t].pc = "history", ![t].saves = @ + 1]
    /\ UNCHANGED <<db_configured, updates, metrics, rlVars, aiVars>>

\* line 170; Database.get_chat_history gives [] without a client or on failure
ReadHistory(t, ok) ==
    /\ h[t].pc = "history"
    /\ h' = [h EXCEPT ![t].pc = "ai", ![t].reads = @ + 1,
                      ![t].history = IF db_configured /\ ok
                                     THEN get_chat_history(table, h[t].chat, HISTORY_LIMIT)
                                     ELSE <<>>]
    /\ UNCHANGED <<table, db_configured, updates, metrics, rlVars, aiVars>>

\* lines 173-175: get_response is entered
Ask(t) ==
    /\ h[t].pc = "ai"
    /\ Call(h[t].chat, h[t].history)
    /\ h' = [h EXCEPT ![t].pc = "wait", ![t].asks = @ + 1]
    /\ UNCHANGED <<table, db_configured, updates, metrics>>

\* get_response has returned: its locals and the record of its frames and
\* channels are gone, the handler holds the value; len(None) at line 178
\* would raise into the except clause
Return(t) ==
    /\ h[t].pc = "wait" /\ pc = "done" /\ ~raised
    /\ h' = [h EXCEPT ![t].pc = IF ret = "None" THEN "failed" ELSE "reply",
                      ![t].response = ret]
    /\ pc' = "idle"
    /\ attempt' = 0
    /\ full_response' = ""
    /\ sources' = <<>>
    /\ ret' = NoValue
    /\ frames' = 0
    /\ chunks' = <<>>
    /\ kept' = <<>>
    /\ log' = <<>>
    /\ sleeps' = <<>>
    /\ chat_id' = NoValue
    /\ history' = <<>>
    /\ formatted_history' = <<>>
    /\ last_src' = <<>>
    /\ sent' = <<>>
    /\ ws_opened' = 0
    /\ ws_closed' = 0
    /\ UNCHANGED <<self_session, own_sessions, ws_open, raised>>
    /\ UNCHANGED <<table, db_configured, updates, metrics, rlVars>>

\* lines 173-175 seen from the handler alone: get_response touches neither
\* the limiter nor the store and hands back a string
GetResponse(t, r) ==
    /\ h[t].pc = "ai"
    /\ h' = [h EXCEPT ![t].pc = "reply", ![t].asks = @ + 1, ![t].response = r]
    /\ UNCHANGED <<table, db_configured, updates, metrics, rlVars, aiVars>>

\* lines 178-192: the reply; a failure goes to the except clause
Reply(t, ok) ==
    /\ h[t].pc = "reply"
    /\ h' = [h EXCEPT ![t].pc = IF ok THEN "save_bot" ELSE "failed",
                      ![t].replies = @ + 1]
    /\ UNCHANGED <<table, db_configured, updates, metrics, rlVars, aiVars>>

\* lines 195-203
SaveBot(t, ok) ==
    /\ h[t].pc = "save_bot"
    /\ table' = save_message(table, h[t].chat, h[t].response, "assistant", ok)
    /\ h' = [h EXCEPT ![t].pc = "finished", ![t].saves = @ + 1]
    /\ metrics' = [metrics EXCEPT !.successful_responses = @ + 1]
    /\ UNCHANGED <<db_configured, updates, rlVars, aiVars>>

\* lines 205-211: the except clause
Failed(t) ==
    /\ h[t].pc = "failed"
    /\ h' = [h EXCEPT ![t].pc = "finished", ![t].replies = @ + 1]
    /\ metrics' = [metrics EXCEPT !.failed_responses = @ + 1]
    /\ UNCHANGED <<table, db_configured, updates, rlVars, aiVars>>

\* the limiter of a fresh process, or after 19 accepted requests of chat c1
\* at the current clock reading (states SpecRL reaches)
InitLimiter ==
    /\ now = 0
    /\ rl_last = [chat |-> NoValue, ret |-> FALSE, at |-> 0, n |-> 0]
    /\ \E k \in {0, RATE_LIMIT_PER_CHAT - 1} :
          /\ requests = IF k = 0 THEN <<>> ELSE [c \in {"c1"} |-> [i \in 1..k |-> 0]]
          /\ accepted = [c \in ChatIds |-> IF c = "c1" THEN [i \in 1..k |-> 0] ELSE <<>>]

\* One handler at a time (updates are processed sequentially), the remote
\* service answering, failing or refusing.
SpecBotInit == InitLimiter /\ InitAIIdle /\ InitBot
SpecBotNext ==
    \/ Ignored("t1")
    \/ Admit("t1", "c1")
    \/ Notice("t1")
    \/ \E ok \in BOOLEAN : Typing("t1", ok)
    \/ \E ok \in BOOLEAN : SaveUser("t1", ok)
    \/ \E ok \in BOOLEAN : ReadHistory("t1", ok)
    \/ Ask("t1")
    \/ \E o \in ConnectOutcomes : Connect(o)
    \/ \E m \in EndFrames : Receive(m)
    \/ \E m \in ErrorFrames : Receive(m)
    \/ Backoff
    \/ Return("t1")
    \/ \E ok \in BOOLEAN : Reply("t1", ok)
    \/ \E ok \in BOOLEAN : SaveBot("t1", ok)
    \/ Failed("t1")
SpecBot == SpecBotInit /\ [][SpecBotNext]_vars

\* Handlers of the same conversation interleaved at every await.
Responses == {"Cairo is a language.", GENERIC_MSG}
SpecConcInit == InitLimiter /\ InitAIIdle /\ self_session = FALSE /\ InitBot /\ db_configured
SpecConcNext ==
    \E t \in Tasks :
        \/ Ignored(t)
        \/ Admit(t, "c1")
        \/ Notice(t)
        \/ \E ok \in BOOLEAN : Typing(t, ok)
        \/ \E ok \in BOOLEAN : SaveUser(t, ok)
        \/ \E ok \in BOOLEAN : ReadHistory(t, ok)
        \/ \E r \in Responses : GetResponse(t, r)
        \/ \E ok \in BOOLEAN : Reply(t, ok)
        \/ \E ok \in BOOLEAN : SaveBot(t, ok)
        \/ Failed(t)
SpecConc == SpecConcInit /\ [][SpecConcNext]_vars

\* One conversation calling the limiter while time passes.
SpecRLInit == InitRL /\ InitAIIdle /\ self_session = FALSE /\ InitBot /\ db_configured
SpecRLNext == (is_allowed("c1") /\ UNCHANGED botVars) \/ Tick
SpecRL == SpecRLInit /\ [][SpecRLNext]_vars

\* Two conversations sharing the limiter.
SpecRL2Next ==
    \/ \E c \in ChatIds : is_allowed(c) /\ UNCHANGED botVars
    \/ TickWindow
SpecRL2 == SpecRLInit /\ [][SpecRL2Next]_vars

\* One get_response request against every behaviour of the remote service.
SpecAIInit == InitRL /\ InitAIIdle /\ InitBot /\ db_configured
SpecAINext ==
    \/ Call("c1", <<>>) /\ UNCHANGED botVars
    \/ \E o \in ConnectOutcomes : Connect(o)
    \/ \E m \in SourcesFrames : Receive(m)
    \/ \E m \in MessageFrames : Receive(m)
    \/ \E m \in BareFrames : Receive(m)
    \/ \E m \in EndFrames : Receive(m)
    \/ \E m \in ErrorFrames : Receive(m)
    \/ \E m \in UntypedFrames : Receive(m)
    \/ \E m \in BrokenFrames : Receive(m)
    \/ StreamClosed
    \/ \E e \in {"TimeoutError", "ClientError"} : ReceiveRaises(e)
    \/ Backoff
SpecAI == SpecAIInit /\ [][SpecAINext]_vars

\* The same request, which its caller may cancel at any await.
SpecAICancelNext ==
    \/ SpecAINext
    \/ \E at \in {"ws_connect", "send_str", "receive", "sleep"} : Cancel(at)
SpecAICancel == SpecAIInit /\ [][SpecAICancelNext]_vars

\* A conversation of up to MaxTurns stored turns is read and sent as history.
StoredTables ==
    UNION { { [i \in 1..n |-> [chat_id |-> "c1", role |-> r[i],
                               message |-> "m" \o ToString(i)]] :
                r \in [1..n -> StoredRoles] } : n \in 0..MaxTurns }
SpecHistInit ==
    /\ InitRL /\ InitAIIdle /\ self_session = FALSE
    /\ h = [t \in Tasks |-> IdleTask]
    /\ table \in StoredTables
    /\ db_configured = TRUE
    /\ updates = 0
    /\ metrics = [total_messages |-> 0, successful_responses |-> 0,
                  failed_responses |-> 0]
SpecHistNext ==
    \/ Call("c1", get_chat_history(table, "c1", HISTORY_LIMIT)) /\ UNCHANGED botVars
    \/ Connect("open")
SpecHist == SpecHistInit /\ [][SpecHistNext]_vars

(***************************************************************************)
(* Properties of RateLimiter.is_allowed (checked under SpecRL).            *)
(***************************************************************************)
\* the accepted calls of chat c whose timestamps lie in the window trailing T
AcceptedInWindow(c, T) ==
    { i \in DOMAIN accepted[c] :
        accepted[c][i] <= T /\ T - accepted[c][i] < RATE_LIMIT_WINDOW }

\* the first moment, from `at` on, at which a call for chat c would be accepted
EarliestAccept(reqs, c, at) ==
    LET stored == IF c \in DOMAIN reqs THEN reqs[c] ELSE <<>>
        moments == {at} \cup { stored[i] + RATE_LIMIT_WINDOW : i \in DOMAIN stored }
        open(T) == Cardinality({ i \in DOMAIN stored : T - stored[i] < RATE_LIMIT_WINDOW })
                       < RATE_LIMIT_PER_CHAT
    IN  CHOOSE T \in moments :
            /\ T >= at /\ open(T)
            /\ \A U \in moments : (U >= at /\ open(U)) => T <= U

\* C1: for every conversation, the number of accepted calls whose timestamps lie
\* in any trailing window of RATE_LIMIT_WINDOW seconds never exceeds
\* RATE_LIMIT_PER_CHAT; a call made when that many accepted calls are still in
\* the window returns False.
C1_WindowNeverExceedsLimit ==
    \A c \in ChatIds :
        \A T \in {now} \cup { accepted[c][i] : i \in DOMAIN accepted[c] } :
            Cardinality(AcceptedInWindow(c, T)) <= 20

\* C1 witness: a call is denied after the window rolled over once (more than 20
\* calls were accepted in all, 20 of them in the current window).
C1_Witness ==
    /\ rl_last.chat = "c1" /\ ~rl_last.ret
    /\ Len(accepted["c1"]) > 20
    /\ Cardinality(AcceptedInWindow("c1", now)) = 20

\* C2: a denied call records nothing: the stored window holds exactly the
\* timestamps that were still in the window before the call, no accepted call
\* is added, and the moment at which the next call is accepted is not postponed.
C2_DeniedCallRecordsNothing ==
    [][ (rl_last' # rl_last /\ ~rl_last'.ret) =>
            LET c == rl_last'.chat
            IN  /\ requests'[c] = SelectSeq(requests[c],
                                      LAMBDA t : now - t < RATE_LIMIT_WINDOW)
                /\ accepted' = accepted
                /\ EarliestAccept(requests', c, now) = EarliestAccept(requests, c, now)
      ]_vars

\* C2 witness: a call denied later than the oldest timestamp still stored.
C2_Witness ==
    /\ rl_last.chat = "c1" /\ ~rl_last.ret
    /\ Len(requests["c1"]) = 20
    /\ rl_last.at > requests["c1"][1]

(***************************************************************************)
(* Properties of StarknetAI.get_response (checked under SpecAI).           *)
(***************************************************************************)
\* attempts started so far by the request
AttemptsMade == Len(log) + (IF pc = "stream" THEN 1 ELSE 0)

\* the text an attempt produced: its message payloads, in order
RECURSIVE Joined(_)
Joined(cs) == IF cs = <<>> THEN "" ELSE Head(cs) \o Joined(Tail(cs))

FixedSentences == {SORRY_MSG, NO_RESPONSE_MSG, TIMEOUT_MSG, GENERIC_MSG}

\* C3 (as claimed): an `error` frame on attempt 1 or 2 makes the request pause
\* and try again instead of returning; on attempt 3 it returns the fixed
\* "Sorry, I encountered an error. Please try again."
C3_ErrorFrameIsRetried ==
    \A i \in DOMAIN log :
        log[i] = "error" =>
            IF i < 3
            THEN Len(log) > i \/ pc = "backoff"
            ELSE pc = "done" /\ ret = SORRY_MSG

\* C4 (as claimed): when all 3 attempts fail, three timeouts give the timeout
\* sentence and any mix of transport failures and error frames gives the
\* generic sentence.
C4_MixGivesGeneric ==
    (pc = "done" /\ Len(log) = 3) =>
        /\ (\A i \in 1..3 : log[i] = "timeout") => ret = TIMEOUT_MSG
        /\ (\A i \in 1..3 : log[i] \in {"transport", "error"}) => ret = GENERIC_MSG

\* C4 (amended): when all 3 attempts fail, the sentence is chosen by the last
\* failure alone: timeout -> the timeout sentence, `error` frame -> the "Sorry"
\* sentence, any other failure -> the generic sentence.
C4_LastFailureChoosesSentence ==
    (pc = "done" /\ Len(log) = 3 /\ log[3] \notin {"messageEnd", "closed"}) =>
        /\ \A i \in 1..2 : log[i] \in {"timeout", "transport", "undecodable", "untyped"}
        /\ ret = CASE log[3] = "timeout" -> TIMEOUT_MSG
                   [] log[3] = "error" -> SORRY_MSG
                   [] OTHER -> GENERIC_MSG

\* C4 witness: a transport failure, a timeout, then an `error` frame.
C4_Witness ==
    /\ pc = "done" /\ log = <<"transport", "timeout", "error">>

\* C5: a request never makes more than 3 attempts; when every attempt fails
\* with a timeout or a transport failure exactly 3 are made, with one 1-second
\* pause between consecutive attempts (2 in all) and none after the last.
C5_ThreeAttemptsTwoPauses ==
    /\ AttemptsMade <= 3
    /\ \A i \in DOMAIN sleeps : sleeps[i] = 1
    /\ pc = "backoff" => AttemptsMade < 3 /\ Len(sleeps) = AttemptsMade
    /\ pc \in {"stream", "done"} => Len(sleeps) = AttemptsMade - 1
    /\ (pc = "done" /\ \A i \in DOMAIN log : log[i] \in {"timeout", "transport"}) =>
            Len(log) = 3 /\ sleeps = <<1, 1>>

\* C5 witness: three failed attempts, timeouts and transport failures mixed.
C5_Witness ==
    /\ pc = "done" /\ log = <<"timeout", "transport", "timeout">>
    /\ sleeps = <<1, 1>>

\* C6: whatever the attempts' outcomes, get_response never raises: once it has
\* ended, it has returned a string.
C6_AlwaysReturnsAString ==
    /\ ~raised
    /\ pc = "done" => ret \in FixedSentences \/ (ret # "None" /\ ret # NoValue /\ ret # "")

\* C6 witness: a frame without `type`, an undecodable frame, then a broken channel.
C6_Witness ==
    /\ pc = "done" /\ log = <<"untyped", "undecodable", "transport">>

\* C7: an attempt that ends with messageEnd without any answer text resolves
\* the request at once to the "couldn't generate" sentence: no later attempt,
\* no pause after it, whichever attempt it is.
C7_EmptyAnswerIsFinal ==
    /\ \A i \in DOMAIN log : log[i] = "messageEnd" => i = Len(log) /\ pc = "done"
    /\ (log # <<>> /\ Last(log) = "messageEnd" /\ \A i \in DOMAIN chunks : chunks[i] = "")
          => /\ ret = "I couldn't generate a response. Please try again."
             /\ Len(sleeps) = Len(log) - 1

\* C7 witness: the second attempt ends with messageEnd after sources and one
\* empty message frame.
C7_Witness ==
    /\ pc = "done" /\ Len(log) = 2 /\ log[2] = "messageEnd"
    /\ chunks = <<"">> /\ kept # <<>>

\* C8 (as claimed): a stream that closes before messageEnd or error is a
\* protocol error: it is retried while attempts remain and never ends the
\* request as a success or an empty result.
C8_EarlyCloseIsRetried ==
    \A i \in DOMAIN log :
        log[i] = "closed" =>
            IF i < 3
            THEN Len(log) > i \/ pc = "backoff"
            ELSE pc = "done" /\ ret = GENERIC_MSG

\* C9 (as claimed): the returned string is a fixed sentence or the complete
\* aggregation of an attempt that ended with messageEnd.
C9_OnlyCompleteAnswers ==
    (pc = "done" /\ ~raised) =>
        \/ ret \in FixedSentences
        \/ Last(log) = "messageEnd" /\ ret = WithTrailer(Joined(chunks), kept)

\* the trailer as the claim describes it: the k-th listed line carries number k
WithUrl(srcs) ==
    SelectSeq(srcs, LAMBDA x : Get(Get(x, "metadata", <<>>), "url", "") # "")
RECURSIVE NumberedLines(_, _)
NumberedLines(urls, k) ==
    IF urls = <<>> THEN ""
    ELSE "\n" \o ToString(k) \o ". " \o Head(urls).metadata.url
             \o NumberedLines(Tail(urls), k + 1)

\* C10 (as claimed, the glyph of the marker line aside): on a successful
\* attempt with text and sources the answer is the text, the marker, then the
\* sources that have a URL numbered 1, 2, ... in order.
C10_ListedLinesNumberedFromOne ==
    (pc = "done" /\ Last(log) = "messageEnd" /\ Joined(chunks) # "" /\ kept # <<>>) =>
        ret = Joined(chunks) \o SOURCES_MARKER \o NumberedLines(WithUrl(kept), 1)


\* C13 (as claimed): any two query frames carry different messageId values.
C13_MessageIdUniquePerAttempt ==
    \A i, j \in DOMAIN sent : i # j => sent[i].messageId # sent[j].messageId

\* C15: every WebSocket, and every session get_response created itself, is
\* released on every exit of its attempt, cancellation included: at most one
\* WebSocket is open at any time, nothing is open when an attempt starts, and
\* nothing is open once get_response has returned or was cancelled.
C15_ChannelsAndSessionsReleased ==
    /\ ws_opened - ws_closed \in {0, 1}
    /\ ws_open <=> ws_opened - ws_closed = 1
    /\ own_sessions \in {0, 1}
    /\ self_session => own_sessions = 0
    /\ pc \in {"connect", "done", "cancelled"} =>
          ws_opened = ws_closed /\ own_sessions = 0
    /\ pc = "backoff" => ws_opened = ws_closed

\* C15 witness: the request is cancelled while its second attempt streams, the
\* client holding no pooled session.
C15_Witness ==
    /\ pc = "cancelled" /\ ~self_session
    /\ log = <<"timeout", "cancelled">> /\ frames = 1
    /\ ws_opened = 2 /\ ws_closed = 2

\* the frames that end the stream loop
Terminal == {"messageEnd", "error"}

\* C16: within an attempt the text is the concatenation, in arrival order, of
\* the message payloads received so far; the loop ends at the first messageEnd
\* or error frame, after which the attempt consumes nothing more: its text and
\* sources change only through the trailer added before returning.
C16_TextIsConcatenationUntilTerminal ==
    [][ /\ pc' = "stream" => full_response' = Joined(chunks')
        /\ (pc = "stream" /\ pc' # "stream" /\ Len(log') > Len(log)
               /\ Last(log') \in Terminal) =>
              /\ chunks' = chunks /\ sources' = sources
              /\ full_response' \in
                    { Joined(chunks),
                      Joined(chunks) \o SOURCES_MARKER \o TrailerLines(sources, 1) }
        /\ (pc # "stream" /\ pc' # "stream") =>
              /\ chunks' = chunks /\ sources' = sources /\ frames' = frames
              /\ full_response' = full_response
      ]_vars

\* C16 witness: the same payload twice with an empty one between, then messageEnd.
C16_Witness ==
    /\ pc = "done" /\ Last(log) = "messageEnd"
    /\ chunks = <<"Cairo ", "", "Cairo ">>
    /\ ret = "Cairo Cairo "

\* C17: the kept sources are always the first 3 entries, in order, of the
\* latest `sources` frame of the attempt (none before the first such frame).
C17_SourcesAreFirstThreeOfLatest ==
    /\ Len(sources) <= 3
    /\ Len(sources) = (IF Len(last_src) < 3 THEN Len(last_src) ELSE 3)
    /\ \A i \in DOMAIN sources : sources[i] = last_src[i]

\* C17 witness: two message frames, a `sources` frame of 4 entries, messageEnd.
C17_Witness ==
    /\ pc = "done" /\ Last(log) = "messageEnd"
    /\ chunks = <<"Cairo ", "is a language.">>
    /\ Len(last_src) = 4
    /\ kept = <<S_docs, S_noMeta, S_book>>

\* C18 (as claimed): a decodable frame without a `type` field is skipped; it
\* never ends an attempt.
C18_UntypedFramesSkipped ==
    \A i \in DOMAIN log : log[i] # "untyped"

C20_OtherWindowsUntouched ==
    [][ /\ \A d \in ChatIds \ {rl_last'.chat} :
              /\ d \in DOMAIN requests' <=> d \in DOMAIN requests
              /\ d \in DOMAIN requests => requests'[d] = requests[d]
        /\ (rl_last' # rl_last /\ ~rl_last'.ret) =>
              Len(SelectSeq(accepted[rl_last'.chat], LAMBDA t : now - t < 3600)) >= 20
      ]_vars

\* C20 witness: c1 used its 20 requests an hour ago and was not called since;
\* c2 is accepted now and c1's stored list still holds the 20 old timestamps.
C20_Witness ==
    /\ now = 3600
    /\ rl_last.chat = "c2" /\ rl_last.ret
    /\ "c1" \in DOMAIN requests /\ Len(requests["c1"]) = 20 /\ requests["c1"][1] = 0
    /\ Len(requests["c2"]) = 1

\* C11: an update the limiter denies gets the notice and nothing else: no
\* store write, no history read, no get_response call, no WebSocket, no
\* reply other than the notice, and the limiter is not asked again for it.
C11_DeniedUpdateOnlyGetsNotice ==
    \A t \in {"t1"} :
        (h[t].pc # "idle" /\ rl_last.chat = h[t].chat /\ ~rl_last.ret) =>
            /\ h[t].pc \in {"notice", "finished"}
            /\ h[t].notices = (IF h[t].pc = "finished" THEN 1 ELSE 0)
            /\ h[t].saves = 0 /\ h[t].reads = 0 /\ h[t].asks = 0 /\ h[t].replies = 0
            /\ pc = "idle" /\ ~ws_open /\ ws_opened = h[t].ws0

\* C11 witness: with the store configured, the 20th request of the hour was
\* answered and stored, the 21st was denied and has got its notice.
C11_Witness ==
    /\ db_configured /\ updates = 2
    /\ "c1" \in DOMAIN requests /\ Len(requests["c1"]) = 20 /\ ~rl_last.ret
    /\ h["t1"].pc = "finished" /\ h["t1"].response = RATE_LIMIT_NOTICE
    /\ Len(table) = 2 /\ table[2].role = "assistant"

\* C14: however the handlers of one conversation interleave, every accepted
\* request is in the stored window exactly once while it is in the window,
\* the window never holds more than 20, and a handler passes admission only
\* with a recorded timestamp of its own.
C14_NoLostAdmission ==
    \A c \in ChatIds :
        LET stored == IF c \in DOMAIN requests THEN requests[c] ELSE <<>>
            admitted == { t \in Tasks : h[t].chat = c
                                         /\ h[t].pc \notin {"idle", "notice"}
                                         /\ h[t].notices = 0 }
        IN  /\ SelectSeq(stored, LAMBDA x : now - x < 3600)
                 = SelectSeq(accepted[c], LAMBDA x : now - x < 3600)
            /\ Len(stored) <= 20
            /\ Cardinality(admitted) <= Len(stored)

\* C14 witness: two handlers of c1 are in flight, one took the 20th place of
\* the hour and the other was denied while the first was still working.
C14_Witness ==
    /\ h["t1"].pc = "history" /\ h["t2"].pc = "notice"
    /\ h["t1"].chat = "c1" /\ h["t2"].chat = "c1"
    /\ "c1" \in DOMAIN requests /\ Len(requests["c1"]) = 20 /\ updates = 2

\* C21 (as claimed): right after a call of is_allowed for a conversation,
\* every stored timestamp of it is within RATE_LIMIT_WINDOW of the call's
\* `now`; the timestamps not older than RATE_LIMIT_WINDOW were all kept and
\* count toward the limit, so the call is denied exactly when 20 of them are
\* left; nothing is evicted between calls.
C21_NotOlderThanWindowIsKept ==
    [][ IF rl_last' = rl_last
        THEN requests' = requests
        ELSE LET c == rl_last'.chat
                 before == IF c \in DOMAIN requests THEN requests[c] ELSE <<>>
                 notOlder == SelectSeq(before, LAMBDA t : now - t <= RATE_LIMIT_WINDOW)
             IN  /\ \A i \in DOMAIN requests'[c] :
                       now - requests'[c][i] <= RATE_LIMIT_WINDOW
                 /\ rl_last'.ret <=> Len(notOlder) < RATE_LIMIT_PER_CHAT
                 /\ requests'[c] = IF rl_last'.ret THEN Append(notOlder, now) ELSE notOlder
      ]_vars

(***************************************************************************)
(* Properties of the history window (checked under SpecHist).              *)
(***************************************************************************)
\* the stored label a protocol role stands for
StoredLabel(role) == IF role = "human" THEN "user" ELSE "assistant"

\* C12: for N stored turns the history of the query frame has min(N, 6)
\* entries, the most recent turns in their oldest-first order, and the role
\* mapping onto "human"/"ai" loses nothing: turns with different labels get
\* different protocol roles and mapping back gives the stored label.
C12_HistoryIsLastSixLossless ==
    \A k \in DOMAIN sent :
        LET f == sent[k].history
            N == Len(table)
            n == IF N < 6 THEN N ELSE 6
        IN  /\ Len(f) = n
            /\ \A i \in 1..n :
                  /\ f[i][2] = table[N - n + i].message
                  /\ f[i][1] \in {"human", "ai"}
                  /\ StoredLabel(f[i][1]) = table[N - n + i].role
            /\ \A i, j \in 1..n :
                  table[N - n + i].role # table[N - n + j].role => f[i][1] # f[j][1]

\* C12 witness: 11 stored turns, 6 of them sent, both roles among them.
C12_Witness ==
    /\ Len(table) = 11 /\ sent # <<>>
    /\ Len(sent[1].history) = 6
    /\ sent[1].history[1] = <<"human", "m6">>
    /\ sent[1].history[6] = <<"ai", "m11">>

====
